---- MODULE Spec2Model ----
(***************************************************************************)
(* prometheus-puppetdb: the entry point of src/main.go (init, main,        *)
(* getTargets, getNodes) and the output selection of the outputs package   *)
(* (Setup).  Strings are sequences of one-character strings, so that       *)
(* url.Parse and yaml.Marshal are computed and not assumed.                *)
(***************************************************************************)
EXTENDS Integers, Sequences, FiniteSets, TLC

\* ------------------------------------------------------------------ bounds
\* Longest inventory response (number of node records) the poll loop receives.
LoopMaxNodes == 1
\* Longest inventory response the mapper is applied to on its own.
MaxNodes == 2
\* Number of getTargets calls one process may make before the model stops it.
MaxCycles == 3

\* ----------------------------------------------------------------- strings
Letters == {"a", "b", "f", "h", "j", "m", "n", "p", "s", "t"}
Upper == {"H"}
Digits == {"1", "2", "8", "9"}

S_http == <<"h", "t", "t", "p">>
S_https == <<"h", "t", "t", "p", "s">>

\* strings.ToLower on one byte.
ToLowerChar(ch) == IF ch = "H" THEN "h" ELSE ch

ToLower(s) == [i \in 1..Len(s) |-> ToLowerChar(s[i])]

HasPrefix(s, p) == Len(s) >= Len(p) /\ SubSeq(s, 1, Len(p)) = p

\* strings.Index(s, ch) for a single byte, 1-based; 0 when absent.
IndexByte(s, ch) ==
    IF \E i \in 1..Len(s) : s[i] = ch
    THEN CHOOSE i \in 1..Len(s) : s[i] = ch /\ \A j \in 1..(i - 1) : s[j] # ch
    ELSE 0

\* strings.LastIndex(s, ch) for a single byte, 1-based; 0 when absent.
LastIndexByte(s, ch) ==
    IF \E i \in 1..Len(s) : s[i] = ch
    THEN CHOOSE i \in 1..Len(s) : s[i] = ch /\ \A j \in (i + 1)..Len(s) : s[j] # ch
    ELSE 0

\* ----------------------------------------------------------------- url.Parse
\* net/url as main.go calls it, restricted to inputs over Letters, Upper,
\* Digits, ":" and "/" (no "?", "#", "%", "@", "[" or control bytes).
RECURSIVE getSchemeAt(_, _)
getSchemeAt(rawURL, i) ==
    IF i > Len(rawURL)
    THEN [scheme |-> <<>>, rest |-> rawURL, err |-> FALSE]
    ELSE LET ch == rawURL[i] IN
         IF ch \in Letters \cup Upper
         THEN getSchemeAt(rawURL, i + 1)
         ELSE IF ch \in Digits
         THEN IF i = 1
              THEN [scheme |-> <<>>, rest |-> rawURL, err |-> FALSE]
              ELSE getSchemeAt(rawURL, i + 1)
         ELSE IF ch = ":"
         THEN IF i = 1
              THEN [scheme |-> <<>>, rest |-> <<>>, err |-> TRUE]
              ELSE [scheme |-> SubSeq(rawURL, 1, i - 1),
                    rest |-> SubSeq(rawURL, i + 1, Len(rawURL)),
                    err |-> FALSE]
         ELSE [scheme |-> <<>>, rest |-> rawURL, err |-> FALSE]

getScheme(rawURL) == getSchemeAt(rawURL, 1)

\* validOptionalPort: "" or ":" followed by digits only.
validOptionalPort(port) ==
    \/ port = <<>>
    \/ /\ port[1] = ":"
       /\ \A i \in 2..Len(port) : port[i] \in Digits

\* parseHost for a host without brackets: the text after the last colon
\* must be a valid port.
parseHostErr(host) ==
    LET i == LastIndexByte(host, ":") IN
    i # 0 /\ ~validOptionalPort(SubSeq(host, i, Len(host)))

UrlError == [err |-> TRUE, Scheme |-> <<>>, Host |-> <<>>, Path |-> <<>>, Opaque |-> <<>>]

Parse(rawURL) ==
    LET s == getScheme(rawURL) IN
    IF s.err THEN UrlError
    ELSE
    LET scheme == ToLower(s.scheme)
        rest == s.rest
    IN
    IF ~HasPrefix(rest, <<"/">>) /\ scheme # <<>>
    THEN \* a rootless path after a scheme is opaque
         [err |-> FALSE, Scheme |-> scheme, Host |-> <<>>, Path |-> <<>>, Opaque |-> rest]
    ELSE IF /\ ~HasPrefix(rest, <<"/">>)
            /\ LET cut == IndexByte(rest, "/")
                   segment == IF cut = 0 THEN rest ELSE SubSeq(rest, 1, cut - 1)
               IN IndexByte(segment, ":") # 0
    THEN \* first path segment in URL cannot contain colon
         UrlError
    ELSE IF /\ scheme # <<>> \/ ~HasPrefix(rest, <<"/", "/", "/">>)
            /\ HasPrefix(rest, <<"/", "/">>)
    THEN LET after == SubSeq(rest, 3, Len(rest))
             cut == IndexByte(after, "/")
             authority == IF cut = 0 THEN after ELSE SubSeq(after, 1, cut - 1)
             path == IF cut = 0 THEN <<>> ELSE SubSeq(after, cut, Len(after))
         IN IF parseHostErr(authority) THEN UrlError
            ELSE [err |-> FALSE, Scheme |-> scheme, Host |-> authority,
                  Path |-> path, Opaque |-> <<>>]
    ELSE [err |-> FALSE, Scheme |-> scheme, Host |-> <<>>, Path |-> rest, Opaque |-> <<>>]

\* ------------------------------------------------------------ inventory data
\* "http://a:9/m"
UrlGood == <<"h", "t", "t", "p", ":", "/", "/", "a", ":", "9", "/", "m">>
\* "::b", the malformed kind ("::bad-url")
UrlBad == <<":", ":", "b">>
\* "b:8/m": a host:port written without a scheme parses, as scheme "b"
UrlOpaque == <<"b", ":", "8", "/", "m">>

\* exporter URLs the poll loop's inventory holds
LoopUrls == {UrlGood, UrlBad}
\* exporter URLs the mapper is applied to on its own
MapUrls == {UrlGood, UrlBad, UrlOpaque}

Certnames == {<<"n", "1">>, <<"n", "2">>}
\* certnames the poll loop's inventory holds
LoopCertnames == {<<"n", "1">>}
JobNames == {<<"j", "1">>, <<"j", "2">>}

\* Node.Exporters: map[string]string
ExporterMaps(urls) == UNION {[js -> urls] : js \in SUBSET JobNames}

\* type Node
Node(certs, urls) == [Certname : certs, Exporters : ExporterMaps(urls)]

SeqsUpTo(S, n) == UNION {[1..k -> S] : k \in 0..n}

\* The orders in which Go's range may visit a map's keys.
RangeOrders(m) ==
    {o \in [1..Cardinality(DOMAIN m) -> DOMAIN m] :
        \A a, b \in 1..Cardinality(DOMAIN m) : a # b => o[a] # o[b]}

\* ------------------------------------------------------------- getTargets
ErrNil == "nil"
ErrFetch == "fetch"
ErrParse == "parse"
ErrWrite == "write"
ErrUpdate == "update"

\* a nil or empty []byte
NoBytes == <<>>

\* type StaticConfig, as built in getTargets
StaticConfig(node, jobName, u) ==
    [Targets |-> <<u.Host>>,
     Labels |-> [certname |-> node.Certname,
                 host |-> node.Certname,
                 metrics_path |-> u.Path,
                 job |-> jobName,
                 scheme |-> u.Scheme]]

\* yaml.Marshal of one StaticConfig: lines <<key text, value>>, map keys sorted.
RECURSIVE MarshalTargets(_, _)
MarshalTargets(ts, i) ==
    IF i > Len(ts) THEN <<>>
    ELSE << <<"  -", ts[i]>> >> \o MarshalTargets(ts, i + 1)

MarshalOne(sc) ==
    << <<"- targets:", <<>>>> >>
    \o MarshalTargets(sc.Targets, 1)
    \o << <<"  labels:", <<>>>>,
          <<"    certname:", sc.Labels.certname>>,
          <<"    host:", sc.Labels.host>>,
          <<"    job:", sc.Labels.job>>,
          <<"    metrics_path:", sc.Labels.metrics_path>>,
          <<"    scheme:", sc.Labels.scheme>> >>

RECURSIVE MarshalFrom(_, _)
MarshalFrom(cfgs, i) ==
    IF i > Len(cfgs) THEN <<>>
    ELSE MarshalOne(cfgs[i]) \o MarshalFrom(cfgs, i + 1)

\* yaml.Marshal(&fileSdConfig); the empty slice renders as "[]".
Marshal(cfgs) ==
    IF cfgs = <<>> THEN << <<"[]", <<>>>> >> ELSE MarshalFrom(cfgs, 1)

\* The two nested range loops of getTargets: node i, k-th key of its map in
\* the order ords[i]; acc is fileSdConfig so far.
RECURSIVE mapLoop(_, _, _, _, _)
mapLoop(nodes, ords, i, k, acc) ==
    IF i > Len(nodes) THEN [fileSdConfig |-> acc, err |-> ErrNil]
    ELSE IF k > Len(ords[i]) THEN mapLoop(nodes, ords, i + 1, 1, acc)
    ELSE LET jobName == ords[i][k]
             u == Parse(nodes[i].Exporters[jobName])
         IN IF u.err
            THEN [fileSdConfig |-> acc, err |-> ErrParse]
            ELSE mapLoop(nodes, ords, i, k + 1,
                         Append(acc, StaticConfig(nodes[i], jobName, u)))

\* A mapper that returns what it rendered so far together with the error.
getTargets_partial(resp, ords) ==
    IF resp.err
    THEN [nodes |-> <<>>, fileSdConfig |-> <<>>, c |-> NoBytes, err |-> ErrFetch]
    ELSE LET r == mapLoop(resp.nodes, ords, 1, 1, <<>>) IN
         [nodes |-> resp.nodes, fileSdConfig |-> r.fileSdConfig,
          c |-> Marshal(r.fileSdConfig), err |-> r.err]

\* A mapper that labels host with the exporter's host instead of the certname.
getTargets_hostFromUrl(resp, ords) ==
    IF resp.err
    THEN [nodes |-> <<>>, fileSdConfig |-> <<>>, c |-> NoBytes, err |-> ErrFetch]
    ELSE LET r == mapLoop(resp.nodes, ords, 1, 1, <<>>)
             fixed == [i \in 1..Len(r.fileSdConfig) |->
                          [r.fileSdConfig[i] EXCEPT
                              !.Labels.host = r.fileSdConfig[i].Targets[1]]]
         IN IF r.err # ErrNil
            THEN [nodes |-> resp.nodes, fileSdConfig |-> fixed,
                  c |-> NoBytes, err |-> r.err]
            ELSE [nodes |-> resp.nodes, fileSdConfig |-> fixed,
                  c |-> Marshal(fixed), err |-> ErrNil]

\* getTargets: resp is what getNodes returned (err: request, transport, read
\* or decode failure), ords the order in which each node's map is ranged.
getTargets(resp, ords) ==
    IF resp.err
    THEN [nodes |-> <<>>, fileSdConfig |-> <<>>, c |-> NoBytes, err |-> ErrFetch]
    ELSE LET r == mapLoop(resp.nodes, ords, 1, 1, <<>>) IN
         IF r.err # ErrNil
         THEN [nodes |-> resp.nodes, fileSdConfig |-> r.fileSdConfig,
               c |-> NoBytes, err |-> r.err]
         ELSE [nodes |-> resp.nodes, fileSdConfig |-> r.fileSdConfig,
               c |-> Marshal(r.fileSdConfig), err |-> ErrNil]

\* Every way of ranging over the maps of a response.
OrdersOf(nodes) ==
    {ords \in [1..Len(nodes) -> UNION {RangeOrders(n.Exporters) : n \in {nodes[i] : i \in 1..Len(nodes)}} \cup {<<>>}] :
        \A i \in 1..Len(nodes) : ords[i] \in RangeOrders(nodes[i].Exporters)}

\* Every result one getTargets call can have over inventories of at most n
\* nodes with certnames from certs and exporter URLs from urls.
Outcomes(certs, urls, n) ==
    {getTargets([err |-> TRUE, nodes |-> <<>>], <<>>)}
    \cup UNION {{getTargets([err |-> FALSE, nodes |-> ns], ords) : ords \in OrdersOf(ns)} :
                    ns \in SeqsUpTo(Node(certs, urls), n)}

LoopOutcomes == Outcomes(LoopCertnames, LoopUrls, LoopMaxNodes)

\* --------------------------------------------------------------- the process
VARIABLES
    pc,             \* position in init / main
    halt,           \* "running", or how the process ended
    flags,          \* what parsing the command line gives loadConfig
    cfgOutput,      \* cfg.Output
    cfgPuppetDBURL, \* cfg.PuppetDBURL
    client,         \* the http.Client has been built
    nodes,          \* getTargets: the decoded inventory response
    fileSdConfig,   \* getTargets: the records built
    c,              \* the rendered document getTargets returned
    err,            \* the error of the last call in main's current iteration
    dirExists,      \* filepath.Dir(cfg.File) exists
    fileExists,     \* cfg.File exists
    file,           \* content of cfg.File
    cmExists,       \* the ConfigMap exists in the cluster
    cmData,         \* its Data["targets.yml"]
    getRes,         \* result of ConfigMaps.Get: "none", "ok", "fail"
    createRes,      \* result of ConfigMaps.Create: "none", "ok", "fail"
    stdout,         \* the arguments of the fmt.Printf calls made, in order
    nQuery,         \* inventory queries made (getNodes calls)
    nWrite,         \* sink writes issued (Printf, WriteFile, Update calls)
    nSleep,         \* time.Sleep calls
    errLogged       \* an error was reported (log.Errorf, log.Fatal, panic)

vars == <<pc, halt, flags, cfgOutput, cfgPuppetDBURL, client, nodes, fileSdConfig,
          c, err, dirExists, fileExists, file, cmExists, cmData, getRes, createRes,
          stdout, nQuery, nWrite, nSleep, errLogged>>

cfgVars == <<flags, cfgOutput, cfgPuppetDBURL>>
targetVars == <<nodes, fileSdConfig, c, err>>
fsVars == <<dirExists, fileExists, file>>
cmVars == <<cmExists, cmData>>
k8sVars == <<getRes, createRes>>
countVars == <<nQuery, nWrite, nSleep>>

\* "http://p", "https://p", "Http://p", "ftp://p", ":p"
BaseUrls ==
    {<<"h", "t", "t", "p", ":", "/", "/", "p">>,
     <<"h", "t", "t", "p", "s", ":", "/", "/", "p">>,
     <<"H", "t", "t", "p", ":", "/", "/", "p">>,
     <<"f", "t", "p", ":", "/", "/", "p">>,
     <<":", "p">>}

OutputNames == {"stdout", "file", "configmap", "external-services", "", "bogus"}

FlagResults == {"ok", "error", "version", "manpage"}

\* A document left in the sink by an earlier run.
StaleDoc ==
    Marshal(<<StaticConfig([Certname |-> <<"n", "1">>], <<"j", "1">>, Parse(UrlOpaque))>>)

Init ==
    /\ pc = "init"
    /\ halt = "running"
    /\ flags \in FlagResults
    /\ cfgOutput \in OutputNames
    /\ cfgPuppetDBURL \in BaseUrls
    /\ client = FALSE
    /\ nodes = <<>> /\ fileSdConfig = <<>> /\ c = NoBytes /\ err = ErrNil
    /\ IF cfgOutput = "file"
       THEN \/ dirExists = FALSE /\ fileExists = FALSE /\ file = NoBytes
            \/ dirExists = TRUE /\ fileExists = FALSE /\ file = NoBytes
            \/ dirExists = TRUE /\ fileExists = TRUE /\ file = StaleDoc
       ELSE dirExists = FALSE /\ fileExists = FALSE /\ file = NoBytes
    /\ IF cfgOutput = "configmap"
       THEN \/ cmExists = FALSE /\ cmData = NoBytes
            \/ cmExists = TRUE /\ cmData = NoBytes
            \/ cmExists = TRUE /\ cmData = StaleDoc
       ELSE cmExists = FALSE /\ cmData = NoBytes
    /\ getRes = "none" /\ createRes = "none"
    /\ stdout = <<>>
    /\ nQuery = 0 /\ nWrite = 0 /\ nSleep = 0
    /\ errLogged = FALSE

\* log.Fatal, log.Fatalf: report and os.Exit(1).
Fatal == halt' = "fatal" /\ errLogged' = TRUE /\ pc' = pc

\* The getTargets call of main: one inventory query, results into the locals.
CallGetTargets(out) ==
    /\ nodes' = out.nodes
    /\ fileSdConfig' = out.fileSdConfig
    /\ c' = out.c
    /\ err' = out.err
    /\ nQuery' = nQuery + 1

\* A new loop iteration: the locals of the previous one are gone.
NextIteration ==
    nodes' = <<>> /\ fileSdConfig' = <<>> /\ c' = NoBytes /\ err' = ErrNil

\* ------------------------------------------------------------------- init()
\* init that builds the client whatever the scheme of the base URL is.
init_noSchemeCheck ==
    /\ pc = "init" /\ halt = "running"
    /\ IF flags = "error" THEN Fatal /\ client' = client
       ELSE IF flags \in {"version", "manpage"}
       THEN halt' = "exit0" /\ UNCHANGED <<pc, errLogged, client>>
       ELSE IF Parse(cfgPuppetDBURL).err THEN Fatal /\ client' = client
       ELSE client' = TRUE /\ pc' = "main_stdout" /\ UNCHANGED <<halt, errLogged>>
    /\ UNCHANGED <<cfgVars, targetVars, fsVars, cmVars, k8sVars, stdout, countVars>>

\* func init: loadConfig, the scheme check, the TLS material, the client.
init ==
    /\ pc = "init" /\ halt = "running"
    /\ IF flags = "error" THEN Fatal /\ client' = client
       ELSE IF flags \in {"version", "manpage"}
       THEN halt' = "exit0" /\ UNCHANGED <<pc, errLogged, client>>
       ELSE LET puppetdbURL == Parse(cfgPuppetDBURL) IN
            IF puppetdbURL.err THEN Fatal /\ client' = client
            ELSE IF puppetdbURL.Scheme # S_http /\ puppetdbURL.Scheme # S_https
            THEN Fatal /\ client' = client
            ELSE IF puppetdbURL.Scheme = S_https
            THEN \E tlsLoaded \in BOOLEAN :
                    IF tlsLoaded
                    THEN client' = TRUE /\ pc' = "main_stdout"
                         /\ UNCHANGED <<halt, errLogged>>
                    ELSE Fatal /\ client' = client
            ELSE client' = TRUE /\ pc' = "main_stdout" /\ UNCHANGED <<halt, errLogged>>
    /\ UNCHANGED <<cfgVars, targetVars, fsVars, cmVars, k8sVars, stdout, countVars>>

\* ------------------------------------------------------------ main: stdout
\* if cfg.Output == "stdout" is false
SkipStdout ==
    /\ pc = "main_stdout" /\ halt = "running"
    /\ cfgOutput # "stdout"
    /\ pc' = "main_file"
    /\ UNCHANGED <<halt, cfgVars, client, targetVars, fsVars, cmVars, k8sVars,
                   stdout, countVars, errLogged>>

\* c, err := getTargets(); log.Fatalf on error
StdoutGetTargets ==
    /\ pc = "main_stdout" /\ halt = "running"
    /\ cfgOutput = "stdout"
    /\ client /\ nQuery < MaxCycles
    /\ \E out \in LoopOutcomes :
          /\ CallGetTargets(out)
          /\ IF out.err # ErrNil
             THEN Fatal
             ELSE pc' = "stdout_print" /\ UNCHANGED <<halt, errLogged>>
    /\ UNCHANGED <<cfgVars, client, fsVars, cmVars, k8sVars, stdout, nWrite, nSleep>>

\* A stdout mode that polls like the other two.
StdoutPrint_loop ==
    /\ pc = "stdout_print" /\ halt = "running"
    /\ stdout' = Append(stdout, c)
    /\ nWrite' = nWrite + 1
    /\ nSleep' = nSleep + 1
    /\ NextIteration
    /\ pc' = "main_stdout"
    /\ UNCHANGED <<halt, cfgVars, client, fsVars, cmVars, k8sVars, nQuery, errLogged>>

\* fmt.Printf(string(c))
StdoutPrint ==
    /\ pc = "stdout_print" /\ halt = "running"
    /\ stdout' = Append(stdout, c)
    /\ nWrite' = nWrite + 1
    /\ pc' = "main_file"
    /\ UNCHANGED <<halt, cfgVars, client, targetVars, fsVars, cmVars, k8sVars,
                   nQuery, nSleep, errLogged>>

\* -------------------------------------------------------------- main: file
\* if cfg.Output == "file" is false
SkipFile ==
    /\ pc = "main_file" /\ halt = "running"
    /\ cfgOutput # "file"
    /\ pc' = "main_configmap"
    /\ UNCHANGED <<halt, cfgVars, client, targetVars, fsVars, cmVars, k8sVars,
                   stdout, countVars, errLogged>>

\* os.MkdirAll(filepath.Dir(cfg.File), 0755); its error is dropped.
FileMkdirAll ==
    /\ pc = "main_file" /\ halt = "running"
    /\ cfgOutput = "file"
    /\ \/ dirExists' = TRUE
       \/ ~dirExists /\ dirExists' = FALSE
    /\ pc' = "file_get"
    /\ UNCHANGED <<halt, cfgVars, client, targetVars, fileExists, file, cmVars,
                   k8sVars, stdout, countVars, errLogged>>

\* A loop that logs the failure and goes on polling.
FileGetTargets_retry ==
    /\ pc = "file_get" /\ halt = "running"
    /\ client /\ nQuery < MaxCycles
    /\ \E out \in LoopOutcomes :
          /\ CallGetTargets(out)
          /\ IF out.err # ErrNil
             THEN errLogged' = TRUE /\ pc' = "file_sleep"
             ELSE pc' = "file_write" /\ UNCHANGED errLogged
    /\ UNCHANGED <<halt, cfgVars, client, fsVars, cmVars, k8sVars, stdout, nWrite, nSleep>>

\* A loop that opens (truncates) the destination before it queries.
FileGetTargets_truncate ==
    /\ pc = "file_get" /\ halt = "running"
    /\ client /\ nQuery < MaxCycles
    /\ \E out \in LoopOutcomes :
          /\ CallGetTargets(out)
          /\ IF out.err # ErrNil
             THEN errLogged' = TRUE /\ pc' = "main_configmap"
             ELSE pc' = "file_write" /\ UNCHANGED errLogged
    /\ IF dirExists
       THEN fileExists' = TRUE /\ file' = NoBytes
       ELSE UNCHANGED <<fileExists, file>>
    /\ UNCHANGED <<halt, cfgVars, client, dirExists, cmVars, k8sVars, stdout,
                   nWrite, nSleep>>

\* c, err := getTargets(); on error log.Errorf and break
FileGetTargets ==
    /\ pc = "file_get" /\ halt = "running"
    /\ client /\ nQuery < MaxCycles
    /\ \E out \in LoopOutcomes :
          /\ CallGetTargets(out)
          /\ IF out.err # ErrNil
             THEN errLogged' = TRUE /\ pc' = "main_configmap"
             ELSE pc' = "file_write" /\ UNCHANGED errLogged
    /\ UNCHANGED <<halt, cfgVars, client, fsVars, cmVars, k8sVars, stdout, nWrite, nSleep>>

\* What a failed ioutil.WriteFile leaves behind: the open failed (nothing
\* changes) or the file was opened, truncated and only partly written
\* (nothing of c, or all of it but the last line).
WriteFileFails ==
    \/ UNCHANGED <<fileExists, file>>
    \/ /\ dirExists
       /\ fileExists' = TRUE
       /\ \E n \in {0, Len(c) - 1} : file' = SubSeq(c, 1, n)

\* A write that appends to what the file holds.
FileWrite_append ==
    /\ pc = "file_write" /\ halt = "running"
    /\ nWrite' = nWrite + 1
    /\ \/ /\ dirExists
          /\ fileExists' = TRUE /\ file' = file \o c
          /\ err' = ErrNil
          /\ pc' = "file_sleep" /\ halt' = halt
       \/ /\ WriteFileFails
          /\ err' = ErrWrite
          /\ halt' = "returned" /\ pc' = pc
    /\ UNCHANGED <<cfgVars, client, nodes, fileSdConfig, c, dirExists, cmVars,
                   k8sVars, stdout, nQuery, nSleep, errLogged>>

\* A write whose failure is skipped over: the loop sleeps and polls again.
FileWrite_retry ==
    /\ pc = "file_write" /\ halt = "running"
    /\ nWrite' = nWrite + 1
    /\ \/ /\ dirExists
          /\ fileExists' = TRUE /\ file' = c
          /\ err' = ErrNil
       \/ /\ WriteFileFails
          /\ err' = ErrWrite
    /\ pc' = "file_sleep" /\ halt' = halt
    /\ UNCHANGED <<cfgVars, client, nodes, fileSdConfig, c, dirExists, cmVars,
                   k8sVars, stdout, nQuery, nSleep, errLogged>>

\* err = ioutil.WriteFile(cfg.File, c, 0644); on error return
FileWrite ==
    /\ pc = "file_write" /\ halt = "running"
    /\ nWrite' = nWrite + 1
    /\ \/ /\ dirExists
          /\ fileExists' = TRUE /\ file' = c
          /\ err' = ErrNil
          /\ pc' = "file_sleep" /\ halt' = halt
       \/ /\ WriteFileFails
          /\ err' = ErrWrite
          /\ halt' = "returned" /\ pc' = pc
    /\ UNCHANGED <<cfgVars, client, nodes, fileSdConfig, c, dirExists, cmVars,
                   k8sVars, stdout, nQuery, nSleep, errLogged>>

\* time.Sleep(cfg.Sleep), then the next iteration
FileSleep ==
    /\ pc = "file_sleep" /\ halt = "running"
    /\ nSleep' = nSleep + 1
    /\ NextIteration
    /\ pc' = "file_get"
    /\ UNCHANGED <<halt, cfgVars, client, fsVars, cmVars, k8sVars, stdout,
                   nQuery, nWrite, errLogged>>

\* --------------------------------------------------------- main: configmap
\* if cfg.Output == "configmap" is false: main returns
SkipConfigMap ==
    /\ pc = "main_configmap" /\ halt = "running"
    /\ cfgOutput # "configmap"
    /\ halt' = "returned"
    /\ UNCHANGED <<pc, cfgVars, client, targetVars, fsVars, cmVars, k8sVars,
                   stdout, countVars, errLogged>>

\* rest.InClusterConfig and kubernetes.NewForConfig; panic on error
CmClientSetup ==
    /\ pc = "main_configmap" /\ halt = "running"
    /\ cfgOutput = "configmap"
    /\ \/ pc' = "cm_get" /\ UNCHANGED <<halt, errLogged>>
       \/ halt' = "panic" /\ errLogged' = TRUE /\ pc' = pc
    /\ UNCHANGED <<cfgVars, client, targetVars, fsVars, cmVars, k8sVars,
                   stdout, countVars>>

\* A Get whose failure is not followed by a Create.
CmGet_noCreate ==
    /\ pc = "cm_get" /\ halt = "running"
    /\ \/ cmExists /\ getRes' = "ok"
       \/ getRes' = "fail"
    /\ pc' = "cm_targets"
    /\ UNCHANGED <<halt, cfgVars, client, targetVars, fsVars, cmVars, createRes,
                   stdout, countVars, errLogged>>

\* ConfigMaps(cfg.NameSpace).Get(cfg.ConfigMap): fails when the object is
\* absent, and may fail for any other reason.
CmGet ==
    /\ pc = "cm_get" /\ halt = "running"
    /\ \/ cmExists /\ getRes' = "ok" /\ pc' = "cm_targets"
       \/ getRes' = "fail" /\ pc' = "cm_create"
    /\ UNCHANGED <<halt, cfgVars, client, targetVars, fsVars, cmVars, createRes,
                   stdout, countVars, errLogged>>

\* ConfigMaps(cfg.NameSpace).Create with Data{"targets.yml": ""}; log.Fatalf
\* on error
CmCreate ==
    /\ pc = "cm_create" /\ halt = "running"
    /\ \/ /\ ~cmExists
          /\ cmExists' = TRUE /\ cmData' = NoBytes
          /\ createRes' = "ok"
          /\ pc' = "cm_targets" /\ UNCHANGED <<halt, errLogged>>
       \/ /\ createRes' = "fail"
          /\ Fatal
          /\ UNCHANGED cmVars
    /\ UNCHANGED <<cfgVars, client, targetVars, fsVars, getRes, stdout, countVars>>

\* c, err := getTargets(); on error log.Errorf and break: main returns
CmGetTargets ==
    /\ pc = "cm_targets" /\ halt = "running"
    /\ client /\ nQuery < MaxCycles
    /\ \E out \in LoopOutcomes :
          /\ CallGetTargets(out)
          /\ IF out.err # ErrNil
             THEN errLogged' = TRUE /\ halt' = "returned" /\ pc' = pc
             ELSE pc' = "cm_update" /\ UNCHANGED <<halt, errLogged>>
    /\ UNCHANGED <<cfgVars, client, fsVars, cmVars, k8sVars, stdout, nWrite, nSleep>>

\* ConfigMaps(cfg.NameSpace).Update with Data{"targets.yml": string(c)};
\* log.Fatalf on error
CmUpdate ==
    /\ pc = "cm_update" /\ halt = "running"
    /\ nWrite' = nWrite + 1
    /\ \/ /\ cmExists
          /\ cmData' = c /\ cmExists' = cmExists
          /\ err' = ErrNil
          /\ pc' = "cm_sleep" /\ UNCHANGED <<halt, errLogged>>
       \/ /\ err' = ErrUpdate
          /\ Fatal
          /\ UNCHANGED cmVars
    /\ UNCHANGED <<cfgVars, client, nodes, fileSdConfig, c, fsVars, k8sVars,
                   stdout, nQuery, nSleep>>

\* time.Sleep(cfg.Sleep), then the next iteration
CmSleep ==
    /\ pc = "cm_sleep" /\ halt = "running"
    /\ nSleep' = nSleep + 1
    /\ NextIteration
    /\ pc' = "cm_targets"
    /\ UNCHANGED <<halt, cfgVars, client, fsVars, cmVars, k8sVars, stdout,
                   nQuery, nWrite, errLogged>>

Next ==
    \/ init
    \/ SkipStdout
    \/ StdoutGetTargets
    \/ StdoutPrint
    \/ SkipFile
    \/ FileMkdirAll
    \/ FileGetTargets
    \/ FileWrite
    \/ FileSleep
    \/ SkipConfigMap
    \/ CmClientSetup
    \/ CmGet
    \/ CmCreate
    \/ CmGetTargets
    \/ CmUpdate
    \/ CmSleep

Spec == Init /\ [][Next]_vars

\* ------------------------------------------------- the mapper on its own
\* getTargets applied once to an inventory response of up to MaxNodes nodes.
MapInit ==
    /\ pc = "map"
    /\ halt = "running"
    /\ flags = "ok"
    /\ cfgOutput = "stdout"
    /\ cfgPuppetDBURL = <<"h", "t", "t", "p", ":", "/", "/", "p">>
    /\ client = TRUE
    /\ nodes \in SeqsUpTo(Node(Certnames, MapUrls), MaxNodes)
    /\ fileSdConfig = <<>> /\ c = NoBytes /\ err = ErrNil
    /\ dirExists = FALSE /\ fileExists = FALSE /\ file = NoBytes
    /\ cmExists = FALSE /\ cmData = NoBytes
    /\ getRes = "none" /\ createRes = "none"
    /\ stdout = <<>>
    /\ nQuery = 0 /\ nWrite = 0 /\ nSleep = 0
    /\ errLogged = FALSE

\* getNodes decoded the response held in nodes; getTargets maps it.
MapApply ==
    /\ pc = "map"
    /\ \E ords \in OrdersOf(nodes) :
          CallGetTargets(getTargets([err |-> FALSE, nodes |-> nodes], ords))
    /\ pc' = "mapped"
    /\ UNCHANGED <<halt, cfgVars, client, fsVars, cmVars, k8sVars, stdout,
                   nWrite, nSleep, errLogged>>

MapNext == MapApply

SpecMap == MapInit /\ [][MapNext]_vars

\* ------------------------------------------------------------ outputs.Setup
\* Setup: which constructor the output name selects, or the configuration
\* error it returns.
Setup(name) ==
    CASE name = "stdout" -> [output |-> "OutputStdout", err |-> "nil"]
      [] name = "file" -> [output |-> "setupOutputFile", err |-> "nil"]
      [] name = "configmap" -> [output |-> "setupOutputK8SConfigMap", err |-> "nil"]
      [] name = "external-services" ->
            [output |-> "setupOutputK8SExternalService", err |-> "nil"]
      [] name = "" -> [output |-> "nil", err |-> "no output defined"]
      [] OTHER -> [output |-> "nil", err |-> "unknown output"]

\* ------------------------------------------------------------------ claims
sinkVars == <<stdout, fileExists, file, cmExists, cmData>>

GetTargetsErrors == {ErrFetch, ErrParse}
WriteErrors == {ErrWrite, ErrUpdate}
Ended == halt # "running"

\* C1: in file or configmap mode, once a getTargets call has failed (query or
\* mapping), no step of the process makes another inventory query, sink
\* write or sleep.
C1_FailedPollEndsLoop ==
    [][(cfgOutput \in {"file", "configmap"} /\ err \in GetTargetsErrors)
          => (nQuery' = nQuery /\ nWrite' = nWrite /\ nSleep' = nSleep)]_vars

\* a file-mode process that polled, slept, then failed a query and returned
C1_Witness ==
    cfgOutput = "file" /\ err = ErrFetch /\ nSleep >= 1 /\ halt = "returned"

\* C2: a failed WriteFile (file mode) or Update (configmap mode) ends the
\* process at once, and nothing is queried, written or slept afterwards.
C2_WriteFailureIsFatal ==
    [][/\ err' \in WriteErrors => halt' \in {"returned", "fatal"}
       /\ err \in WriteErrors => countVars' = countVars]_vars

\* a file write that failed after an earlier cycle had succeeded
C2_Witness ==
    cfgOutput = "file" /\ err = ErrWrite /\ nSleep >= 1 /\ halt = "returned"

\* some exporter URL of some node of ns does not parse
AnyMalformed(ns) ==
    \E i \in 1..Len(ns) : \E j \in DOMAIN ns[i].Exporters :
        Parse(ns[i].Exporters[j]).err

\* C3: a getTargets call on a response holding a malformed exporter URL
\* returns the parse error and no document, and in that cycle no sink is
\* written, whatever was mapped before the malformed entry.
C3_ParseFailureNoPartialOutput ==
    [][/\ (nQuery' = nQuery + 1 /\ AnyMalformed(nodes')) => err' = ErrParse
       /\ err' = ErrParse => (c' = NoBytes /\ nWrite' = nWrite /\ UNCHANGED sinkVars)
       /\ err = ErrParse => (c' = NoBytes /\ nWrite' = nWrite /\ UNCHANGED sinkVars)]_vars

\* a parse failure met after a record had already been built, in file mode,
\* with the process over
C3_Witness ==
    /\ cfgOutput = "file" /\ err = ErrParse /\ Len(fileSdConfig) >= 1
    /\ halt = "returned" /\ nWrite = 0

\* C4: with an output name Setup rejects (empty or unknown), the process
\* ends having reported an error and made no query and no write.
C4_UnknownOutputIsFatal ==
    (flags = "ok" /\ Setup(cfgOutput).err # "nil" /\ Ended)
        => (errLogged /\ nQuery = 0 /\ nWrite = 0)

\* C5: in configmap mode an Update is issued only on an existing object and
\* after Get or Create succeeded (Create when Get failed); a created object
\* holds an empty targets.yml until the first Update; a cycle that succeeded
\* issued one Update, which left that cycle's document in targets.yml.
C5_ConfigMapCreateThenUpdate ==
    cfgOutput = "configmap" =>
        /\ nWrite > 0 => (cmExists /\ (getRes = "ok" \/ createRes = "ok"))
        /\ (nWrite > 0 /\ getRes = "fail") => createRes = "ok"
        /\ (createRes = "ok" /\ nWrite = 0) => cmData = NoBytes
        /\ nWrite <= nQuery
        /\ pc = "cm_sleep" =>
              (nWrite = nQuery /\ cmData = c /\ c = Marshal(fileSdConfig))

\* the object was absent and created, and two cycles have updated it
C5_Witness ==
    /\ cfgOutput = "configmap" /\ createRes = "ok" /\ pc = "cm_sleep"
    /\ nWrite >= 2 /\ cmData # NoBytes

\* C6: in stdout mode there is at most one inventory query, at most one
\* write (of the document of a successful getTargets) and no sleep; the
\* query is made only before any query, the write only right after it with
\* its document, and past the write main only skips the other two modes; a
\* process that has not ended can step (at the query: the client is built);
\* one that returns has queried and written exactly once.
C6_StdoutSinglePass ==
    cfgOutput = "stdout" =>
        /\ nQuery <= 1 /\ nWrite <= 1 /\ nSleep = 0
        /\ Len(stdout) = nWrite
        /\ nWrite = 1 => (nQuery = 1 /\ err = ErrNil /\ stdout = <<c>>)
        /\ pc \in {"init", "main_stdout", "stdout_print", "main_file", "main_configmap"}
        /\ pc \in {"init", "main_stdout"} => (nQuery = 0 \/ halt = "fatal")
        /\ pc = "stdout_print" => (nQuery = 1 /\ nWrite = 0 /\ err = ErrNil)
        /\ pc \in {"main_file", "main_configmap"} => nWrite = 1
        /\ halt = "returned" => (nQuery = 1 /\ nWrite = 1)
        /\ ~Ended =>
              \/ ENABLED init
              \/ pc = "main_stdout" /\ client /\ nQuery < MaxCycles
              \/ ENABLED StdoutPrint
              \/ ENABLED SkipFile
              \/ ENABLED SkipConfigMap

\* a stdout-mode process that printed its document and returned
C6_Witness ==
    cfgOutput = "stdout" /\ halt = "returned" /\ nWrite = 1 /\ stdout # <<>>

AllParse(ns) == ~AnyMalformed(ns)

RECURSIVE TotalExporters(_)
TotalExporters(ns) ==
    IF ns = <<>> THEN 0
    ELSE Cardinality(DOMAIN Head(ns).Exporters) + TotalExporters(Tail(ns))

\* C7: when every exporter URL parses, getTargets succeeds with as many
\* records as there are exporter entries; each record has one target and
\* certname = host; and for every certname and job name there are as many
\* records labelled with them as nodes of that certname exporting that job.
C7_OneRecordPerExporter ==
    (pc = "mapped" /\ AllParse(nodes)) =>
        /\ err = ErrNil
        /\ Len(fileSdConfig) = TotalExporters(nodes)
        /\ \A k \in 1..Len(fileSdConfig) :
              /\ Len(fileSdConfig[k].Targets) = 1
              /\ fileSdConfig[k].Labels.host = fileSdConfig[k].Labels.certname
        /\ \A cn \in Certnames, j \in JobNames :
              Cardinality({k \in 1..Len(fileSdConfig) :
                              /\ fileSdConfig[k].Labels.certname = cn
                              /\ fileSdConfig[k].Labels.job = j})
              = Cardinality({i \in 1..Len(nodes) :
                              /\ nodes[i].Certname = cn
                              /\ j \in DOMAIN nodes[i].Exporters})

\* two nodes of different certnames, several exporters, all mapped
C7_Witness ==
    /\ pc = "mapped" /\ AllParse(nodes) /\ Len(nodes) >= 2
    /\ nodes[1].Certname # nodes[2].Certname
    /\ Len(fileSdConfig) >= 3

\* the documents getTargets can render from the response ns
RenderingsOf(ns) ==
    {getTargets([err |-> FALSE, nodes |-> ns], ords).c : ords \in OrdersOf(ns)}

OtherScheme ==
    /\ ~Parse(cfgPuppetDBURL).err
    /\ Parse(cfgPuppetDBURL).Scheme \notin {S_http, S_https}

\* C9: with a base URL of another scheme than http or https the client is
\* never built, main is never entered, no query and no write is made, and a
\* process whose flags parsed ends in a reported fatal error.
C9_BadSchemeFailsStartup ==
    OtherScheme =>
        /\ ~client /\ pc = "init"
        /\ nQuery = 0 /\ nWrite = 0 /\ stdout = <<>>
        /\ (flags = "ok" /\ Ended) => (halt = "fatal" /\ errLogged)

\* an ftp base URL, rejected by init
C9_Witness ==
    OtherScheme /\ flags = "ok" /\ halt = "fatal" /\ cfgOutput = "file"

\* C10: in file and configmap mode, the step in which getTargets fails and
\* every step after it leave the file and the ConfigMap entry as they were.
C10_FailedCycleLeavesSink ==
    [][(cfgOutput \in {"file", "configmap"}
          /\ (err' \in GetTargetsErrors \/ err \in GetTargetsErrors))
          => UNCHANGED <<fileExists, file, cmExists, cmData>>]_vars

\* a failed cycle after a successful one: the file still holds a document
C10_Witness ==
    /\ cfgOutput = "file" /\ err \in GetTargetsErrors /\ nWrite >= 1
    /\ fileExists /\ file # NoBytes /\ file # StaleDoc /\ Ended
====
